---- MODULE Spec2Model ----
(***************************************************************************)
(* A model of the RAG core of JupiterBot (src/utils/rag_engine.py):        *)
(* retrieve_context, _truncate_context, generate_response, ask_question    *)
(* and build_knowledge_base.                                               *)
(*                                                                         *)
(* Numbers.  Python floats are held as exact integers.  A distance is in   *)
(* thousandths (0.3 is 300).  A similarity is in units of 1/SimOne, with   *)
(* SimOne a multiple of 1500 (so 1 - d/1.5 is exact) and of 60 (so the     *)
(* mean over up to six candidates is exact).                               *)
(*                                                                         *)
(* Text.  A text is a sequence of tokens; the separator "\n---\n" that     *)
(* retrieve_context joins with and _truncate_context splits at is the      *)
(* token Sep.  The empty string is the empty sequence.                     *)
(***************************************************************************)
EXTENDS Integers, Sequences, FiniteSets, TLC

VARIABLES
    store,          \* retrieve_context: what self.collection answers for this call
    cfg_threshold,  \* Config.SIMILARITY_THRESHOLD, in units of 1/SimOne
    rpc,            \* retrieve_context: "call" before the call, "returned" after
    ret,            \* retrieve_context: the returned (context, retrieved_docs, avg_relevance)
    t_context,      \* _truncate_context: the context argument
    t_max,          \* _truncate_context: the max_tokens argument
    tpc,            \* _truncate_context: "call" before the call, "returned" after
    t_out,          \* _truncate_context: the returned text
    a_pc,           \* ask_question: "retrieve", "generate", "log", "done", "raised"
    attempt,        \* ask_question: the loop variable of line 410
    session,        \* ask_question: whether a session_id was passed
    retrieved,      \* ask_question: the tuple unpacked at line 416
    result,         \* ask_question: what generate_response returned (line 435)
    final,          \* ask_question: the record it returned
    trace,          \* ask_question: the calls made so far, with their outcomes
    scraped_data,   \* build_knowledge_base: the documents passed in
    all_ids,        \* build_knowledge_base: the chunk ids, in order (all_chunks alike)
    b_i,            \* build_knowledge_base: the loop variable i of line 146
    batch_num,      \* build_knowledge_base: the local of line 158, 0 while unbound
    collection,     \* the ids held by the store
    submitted,      \* build_knowledge_base: the offsets i whose batch went to collection.add
    failed,         \* build_knowledge_base: the offsets i whose collection.add raised
    b_pc,           \* build_knowledge_base: "start", "batches", "done"
    b_ret,          \* build_knowledge_base: the returned bool
    first_build,    \* what an earlier build on the same store left, Pending if none
    content,        \* _chunk_content: the content argument, a sequence of characters
    chunk_size,     \* Config.CHUNK_SIZE
    chunk_overlap,  \* Config.CHUNK_OVERLAP
    c_start,        \* _chunk_content: the local start
    chunks,         \* _chunk_content: the list chunks, the returned list in the end
    windows,        \* _chunk_content: for each chunk in chunks, the window it was cut from
    c_iter,         \* _chunk_content: the iterations of the while loop so far
    c_pc,           \* _chunk_content: "call", "loop", "returned"
    g_context,      \* generate_response: the context argument, then the local of line 338
    g_docs,         \* generate_response: the retrieved_docs argument
    g_fault,        \* generate_response: the statement of its try block that raises, "none" if none
    g_pc,           \* generate_response: "call", "truncated", "created", "returned", "raised"
    g_ret,          \* generate_response: the returned record
    system_ready,               \* st.session_state.system_ready
    processing_question,        \* st.session_state.processing_question
    last_processed_question,    \* st.session_state.last_processed_question
    conversation_history,       \* st.session_state.conversation_history, the questions of its items
    p_pc,           \* JupiterAIAssistant.ask_question: "idle", "asking" during the engine call, "off" with no session
    p_trace         \* the submissions so far: what was rejected, what reached the engine, how it ended

retrVars == <<store, cfg_threshold, rpc, ret>>
truncVars == <<t_context, t_max, tpc, t_out>>
askVars == <<a_pc, attempt, session, retrieved, result, final, trace>>
buildVars == <<scraped_data, all_ids, b_i, batch_num, collection, submitted,
               failed, b_pc, b_ret, first_build>>
chunkVars == <<content, chunk_size, chunk_overlap, c_start, chunks, windows,
               c_iter, c_pc>>
genVars == <<g_context, g_docs, g_fault, g_pc, g_ret>>
appVars == <<system_ready, processing_question, last_processed_question,
             conversation_history, p_pc, p_trace>>

vars == <<store, cfg_threshold, rpc, ret, t_context, t_max, tpc, t_out,
          a_pc, attempt, session, retrieved, result, final, trace,
          scraped_data, all_ids, b_i, batch_num, collection, submitted,
          failed, b_pc, b_ret, first_build,
          content, chunk_size, chunk_overlap, c_start, chunks, windows,
          c_iter, c_pc,
          g_context, g_docs, g_fault, g_pc, g_ret,
          system_ready, processing_question, last_processed_question,
          conversation_history, p_pc, p_trace>>

----------------------------------------------------------------------------
(* Bounds of the model *)

MaxDocs == 2            \* most documents a query result holds
MaxTextLen == 6         \* most tokens of a context handed to _truncate_context
MaxBudget == 3          \* largest max_tokens handed to _truncate_context
MaxBuildDocs == 2       \* most documents handed to build_knowledge_base
MaxContentLen == 7      \* most characters of a content handed to _chunk_content
MaxChunkSize == 5       \* largest CHUNK_SIZE a configuration carries
MaxWindows == 8         \* most iterations of the loop of _chunk_content followed
MaxSubmissions == 5     \* most questions submitted to the app layer in one session

----------------------------------------------------------------------------
(* Numbers *)

SimOne == 1500 * 60     \* similarity 1.0
DistScale == 1500       \* the divisor 1.5 of line 230, in thousandths
DefaultDistance == 1000 \* the distance 1.0 used when the store gave none

Max2(a, b) == IF a >= b THEN a ELSE b

\* Config.SIMILARITY_THRESHOLD = 0.3 and the class constant of the same value
SIMILARITY_THRESHOLD == (3 * SimOne) \div 10
DEFAULT_SIMILARITY_THRESHOLD == (3 * SimOne) \div 10
HighThreshold == (8 * SimOne) \div 10       \* "threshold > 0.8"
RelaxedThreshold == SimOne \div 10          \* "trying with 0.1"

\* thresholds a configuration may carry: 0.05 0.1 0.2 0.3 0.5 0.8 0.9
ConfigThresholds ==
    { SimOne \div 20, SimOne \div 10, SimOne \div 5, SIMILARITY_THRESHOLD,
      SimOne \div 2, HighThreshold, (9 * SimOne) \div 10 }

\* distances a store may answer with, in thousandths; a negative one comes
\* from a metric that is not bounded below by 0 (inner product)
Distances == { 0 - 150, 0, 300, 900, 1000, 1200, 1400, 1600 }

----------------------------------------------------------------------------
(* Text *)

Sep == "SEP"

RECURSIVE Join(_)
\* "\n---\n".join(parts)
Join(parts) ==
    IF Len(parts) = 0 THEN << >>
    ELSE IF Len(parts) = 1 THEN parts[1]
    ELSE parts[1] \o <<Sep>> \o Join(Tail(parts))

----------------------------------------------------------------------------
(* retrieve_context *)

\* the text of the i-th document of a query result
DocText(i) == "c" \o ToString(i)

FullMeta == [source_url |-> "u", title |-> "T"]
NoMeta == [chunk_index |-> 0]      \* the {} put in place of a missing entry

\* the results dict of collection.query, lists already unwrapped ([0])
QueryResults ==
    { [documents |-> d, metadatas |-> m, distances |-> x] :
        d \in { [i \in 1..n |-> DocText(i)] : n \in 0..MaxDocs },
        m \in UNION { [1..n -> {FullMeta}] : n \in 0..MaxDocs },
        x \in UNION { [1..n -> Distances] : n \in 0..MaxDocs } }

\* kind: "missing" the collection is None, "count_error" count() raises,
\* "empty" count() is 0, "query_error" query() raises, "ok" query() answers
StoreKinds == {"missing", "count_error", "empty", "query_error", "ok"}

NoResults == [documents |-> << >>, metadatas |-> << >>, distances |-> << >>]

Stores ==
    { [kind |-> k, results |-> NoResults] : k \in StoreKinds \ {"ok"} }
    \cup
    { [kind |-> "ok", results |-> q] :
        q \in { r \in QueryResults : /\ Len(r.metadatas) <= Len(r.documents)
                                      /\ Len(r.distances) <= Len(r.documents) } }

EmptyRetrieval == [context |-> << >>, retrieved_docs |-> << >>, avg_relevance |-> 0]

\* Threshold without the fallback of lines 214-215
ThresholdAsConfigured(cfg) == cfg

\* lines 213-216
Threshold(cfg) ==
    IF cfg > HighThreshold THEN DEFAULT_SIMILARITY_THRESHOLD ELSE cfg

\* line 225 / 263
DistanceAt(q, i) ==
    IF i <= Len(q.distances) THEN q.distances[i] ELSE DefaultDistance

\* line 226 / 264
MetadataAt(q, i) ==
    IF i <= Len(q.metadatas) THEN q.metadatas[i] ELSE NoMeta

\* dict.get(key, default)
Get(m, key, default) == IF key \in DOMAIN m THEN m[key] ELSE default

\* line 230 / 267
SimilarityScore(distance) ==
    Max2(0, SimOne - ((distance * SimOne) \div DistScale))

\* lines 236-242 / 270-276
DocInfo(q, i) ==
    [ content |-> q.documents[i],
      metadata |-> MetadataAt(q, i),
      similarity_score |-> SimilarityScore(DistanceAt(q, i)),
      source_url |-> Get(MetadataAt(q, i), "source_url", ""),
      title |-> Get(MetadataAt(q, i), "title", "Unknown") ]

\* lines 248-250 / 281-283: "[Source: <title>]\n<content>\n"
ContextPart(doc_info) == << "[Source: " \o doc_info.title \o "]", doc_info.content >>

NoneKept == [retrieved_docs |-> << >>, context_parts |-> << >>, total_relevance |-> 0]

RECURSIVE FilterPassInverted(_, _, _, _)
\* FilterPass with the comparison of line 235 turned round
FilterPassInverted(q, threshold, i, acc) ==
    IF i > Len(q.documents) THEN acc
    ELSE LET info == DocInfo(q, i)
             next == IF info.similarity_score <= threshold
                     THEN [ retrieved_docs |-> Append(acc.retrieved_docs, info),
                            context_parts |-> Append(acc.context_parts, ContextPart(info)),
                            total_relevance |-> acc.total_relevance + info.similarity_score ]
                     ELSE acc
         IN FilterPassInverted(q, threshold, i + 1, next)

RECURSIVE FilterPassTotalOutside(_, _, _, _)
\* FilterPass with "total_relevance += similarity_score" outside the if
FilterPassTotalOutside(q, threshold, i, acc) ==
    IF i > Len(q.documents) THEN acc
    ELSE LET info == DocInfo(q, i)
             next == IF info.similarity_score >= threshold
                     THEN [ retrieved_docs |-> Append(acc.retrieved_docs, info),
                            context_parts |-> Append(acc.context_parts, ContextPart(info)),
                            total_relevance |-> acc.total_relevance + info.similarity_score ]
                     ELSE [ acc EXCEPT !.total_relevance = @ + info.similarity_score ]
         IN FilterPassTotalOutside(q, threshold, i + 1, next)

RECURSIVE FilterPass(_, _, _, _)
\* one run of the loop of lines 222-254 (again 261-286) from document i on,
\* acc being (retrieved_docs, context_parts, total_relevance) so far
FilterPass(q, threshold, i, acc) ==
    IF i > Len(q.documents) THEN acc
    ELSE LET info == DocInfo(q, i)
             next == IF info.similarity_score >= threshold
                     THEN [ retrieved_docs |-> Append(acc.retrieved_docs, info),
                            context_parts |-> Append(acc.context_parts, ContextPart(info)),
                            total_relevance |-> acc.total_relevance + info.similarity_score ]
                     ELSE acc
         IN FilterPass(q, threshold, i + 1, next)

\* Relaxes comparing with the default threshold instead of 0.1
RelaxesAboveDefault(first, threshold) ==
    Len(first.retrieved_docs) = 0 /\ threshold > DEFAULT_SIMILARITY_THRESHOLD

\* line 257
Relaxes(first, threshold) ==
    Len(first.retrieved_docs) = 0 /\ threshold > RelaxedThreshold

\* Combine joining the parts of all candidates but the last
CombineWithoutLast(kept) ==
    [ context |-> Join(SubSeq(kept.context_parts, 1, Len(kept.context_parts) - 1)),
      retrieved_docs |-> kept.retrieved_docs,
      avg_relevance |-> IF Len(kept.retrieved_docs) > 0
                        THEN kept.total_relevance \div Len(kept.retrieved_docs)
                        ELSE 0 ]

\* lines 288-294
Combine(kept) ==
    [ context |-> Join(kept.context_parts),
      retrieved_docs |-> kept.retrieved_docs,
      avg_relevance |-> IF Len(kept.retrieved_docs) > 0
                        THEN kept.total_relevance \div Len(kept.retrieved_docs)
                        ELSE 0 ]

\* lines 212-294: the two filter passes over a query result
Filtered(q, cfg) ==
    LET threshold == Threshold(cfg)
        first == FilterPass(q, threshold, 1, NoneKept)
        kept == IF Relaxes(first, threshold)
                THEN FilterPass(q, RelaxedThreshold, 1, first)
                ELSE first
    IN Combine(kept)

\* lines 179-300
RetrieveContextOf(s, cfg) ==
    IF s.kind \in {"missing", "empty"} THEN EmptyRetrieval              \* 183-185
    ELSE IF s.kind = "count_error" THEN EmptyRetrieval                  \* 296-300
    ELSE IF s.kind = "query_error" THEN EmptyRetrieval                  \* 196-198
    ELSE IF Len(s.results.documents) = 0 THEN EmptyRetrieval            \* 201-203
    ELSE Filtered(s.results, cfg)

----------------------------------------------------------------------------
(* _count_tokens and _truncate_context *)

\* a token the tokenizer refuses to encode (tiktoken raises on the text of
\* a special token), which sends _count_tokens to its word-count fallback
Special == "<|endoftext|>"

Tokens == {"w", Special, Sep}

Texts == UNION { [1..n -> Tokens] : n \in 0..MaxTextLen }

\* lines 302-308: the tokenizer's count, or int(words * 1.3) when it raises
CountTokens(text) ==
    IF \E j \in 1..Len(text) : text[j] = Special
    THEN (13 * Len(text)) \div 10
    ELSE Len(text)

RECURSIVE SplitFrom(_, _, _)
\* the pieces of text from token j on, cur being the piece begun so far
SplitFrom(text, j, cur) ==
    IF j > Len(text) THEN <<cur>>
    ELSE IF text[j] = Sep THEN <<cur>> \o SplitFrom(text, j + 1, << >>)
    ELSE SplitFrom(text, j + 1, Append(cur, text[j]))

\* context.split("\n---\n"), line 317
Split(text) == SplitFrom(text, 1, << >>)

RECURSIVE AccumulateSkipping(_, _, _, _, _)
\* Accumulate with "continue" in place of the "break" of line 327
AccumulateSkipping(parts, max_tokens, k, truncated_parts, current_tokens) ==
    IF k > Len(parts) THEN truncated_parts
    ELSE LET part_tokens == CountTokens(parts[k])
         IN IF current_tokens + part_tokens <= max_tokens
            THEN AccumulateSkipping(parts, max_tokens, k + 1,
                                    Append(truncated_parts, parts[k]),
                                    current_tokens + part_tokens)
            ELSE AccumulateSkipping(parts, max_tokens, k + 1,
                                    truncated_parts, current_tokens)

RECURSIVE Accumulate(_, _, _, _, _)
\* the loop of lines 321-327 from part k on
Accumulate(parts, max_tokens, k, truncated_parts, current_tokens) ==
    IF k > Len(parts) THEN truncated_parts
    ELSE LET part_tokens == CountTokens(parts[k])
         IN IF current_tokens + part_tokens <= max_tokens
            THEN Accumulate(parts, max_tokens, k + 1,
                            Append(truncated_parts, parts[k]),
                            current_tokens + part_tokens)
            ELSE truncated_parts

\* lines 310-329.  The handler of lines 330-332 is not entered: with a str
\* argument neither _count_tokens (which has its own fallback), split nor
\* join raises.
TruncateContextOf(context, max_tokens) ==
    IF CountTokens(context) <= max_tokens THEN context
    ELSE Join(Accumulate(Split(context), max_tokens, 1, << >>, 0))

----------------------------------------------------------------------------
(* generate_response *)

DefaultMaxTokens == 2000    \* the default of max_tokens, line 310

ApologyMsg == "I apologize, but I'm experiencing technical difficulties."

\* what the chat completion call does: "ok" it answers, "provider_error"
\* create() raises, "malformed" reading choices[0].message.content raises
LLMOutcomes == {"ok", "provider_error", "malformed"}

Member(x, seq) == \E k \in 1..Len(seq) : seq[k] = x

RECURSIVE SourcesUsedAll(_, _)
\* SourcesUsed without the test of line 384
SourcesUsedAll(docs, sources_used) ==
    IF Len(docs) = 0 THEN sources_used
    ELSE SourcesUsedAll(Tail(docs),
                        Append(sources_used, [ title |-> docs[1].title,
                                               url |-> docs[1].source_url,
                                               relevance |-> docs[1].similarity_score ]))

RECURSIVE SourcesUsed(_, _)
\* lines 377-385, sources_used being the list so far
SourcesUsed(docs, sources_used) ==
    IF Len(docs) = 0 THEN sources_used
    ELSE LET source_info == [ title |-> docs[1].title,
                              url |-> docs[1].source_url,
                              relevance |-> docs[1].similarity_score ]
         IN SourcesUsed(Tail(docs),
                        IF Member(source_info, sources_used) THEN sources_used
                        ELSE Append(sources_used, source_info))

\* lines 334-403
GenerateResponseOf(context, retrieved_docs, llm) ==
    LET truncated == TruncateContextOf(context, DefaultMaxTokens)
    IN IF llm = "ok"
       THEN [ response |-> "answer",
              sources |-> SourcesUsed(retrieved_docs, << >>),
              context_used |-> Len(truncated),
              tokens_used |-> Len(truncated) + 1 ]
       ELSE [ response |-> ApologyMsg,                                  \* 394-403
              sources |-> << >>,
              context_used |-> 0,
              tokens_used |-> 0 ]

\* the statement of the try block of lines 336-392 that raises:
\* "truncate" line 338, "provider_error" the create() of lines 364-372,
\* "malformed" the reading of the reply and of the documents, lines 374-392
GenFaults == {"none", "truncate"} \cup (LLMOutcomes \ {"ok"})

\* Caught letting a failure of reading the reply through
CaughtReplyEscapes(fault) == IF fault = "malformed" THEN "raise" ELSE "return"

\* lines 394-403: except Exception, around the whole body
Caught(fault) == "return"

----------------------------------------------------------------------------
(* ask_question *)

MaxAttempts == 3        \* max_attempts, line 408

NoContextMsg == "I couldn't find relevant information about your question in Jupiter's knowledge base."
TechnicalErrorMsg == "I apologize for the technical error."

Pending == [pending |-> TRUE]       \* nothing returned yet

\* lines 422-429
NoContextResult ==
    [ query |-> "q", response |-> NoContextMsg, sources |-> << >>,
      relevance_score |-> 0, response_time |-> 0, context_length |-> 0 ]

\* lines 470-478
TechnicalErrorResult ==
    [ query |-> "q", response |-> TechnicalErrorMsg, sources |-> << >>,
      relevance_score |-> 0, response_time |-> 0, context_length |-> 0,
      error |-> "e" ]

\* lines 441-450
FinalResult(res, retr) ==
    [ query |-> "q", response |-> res.response, sources |-> res.sources,
      relevance_score |-> retr.avg_relevance, response_time |-> 0,
      context_length |-> res.context_used, tokens_used |-> res.tokens_used,
      num_sources |-> Len(retr.retrieved_docs) ]

\* line 460
WithConversationId(final_result, id) ==
    [ k \in DOMAIN final_result \cup {"conversation_id"} |->
        IF k = "conversation_id" THEN id ELSE final_result[k] ]

\* AfterEmpty with one attempt more than max_attempts
AfterEmptyOneMore(att) == IF att = MaxAttempts + 1 THEN "return" ELSE "continue"

\* AfterEmpty as the comment of line 419 words it: return, never retry
AfterEmptyReturnsAtOnce(att) == "return"

\* lines 420-431: an empty context on attempt att
AfterEmpty(att) == IF att = MaxAttempts THEN "return" ELSE "continue"

\* AfterRaise letting the exception of the last attempt through
AfterRaiseLastEscapes(att) == IF att = MaxAttempts THEN "raise" ELSE "continue"

\* lines 467-478: an exception caught on attempt att
AfterRaise(att) == IF att = MaxAttempts THEN "return" ELSE "continue"

\* the stores a question may meet: every failure kind, and answers of up
\* to MaxDocs documents, near (0.3) or far (1.6), with their metadata
AskStores ==
    { st \in Stores :
        st.kind = "ok" =>
            /\ Len(st.results.metadatas) = Len(st.results.documents)
            /\ Len(st.results.distances) = Len(st.results.documents)
            /\ \A i \in 1..Len(st.results.distances) :
                  st.results.distances[i] \in {300, 1600} }

\* Logs whatever session_id is
LogsAlways(session_id) == TRUE

\* line 453: if session_id
Logs(session_id) == session_id

\* what log_conversation does: it returns a row id, returns 0 (no
\* connection, or its own handler), or raises
LogOutcomes == {"rowid", "zero", "raise"}

\* AfterLog with a logging failure reaching the handler of line 467 on the
\* last attempt
AfterLogFailureReplacesAnswer(final_result, out) ==
    IF out = "raise"
    THEN TechnicalErrorResult
    ELSE WithConversationId(final_result, IF out = "rowid" THEN 1 ELSE 0)

\* lines 453-465: what ask_question returns once log_conversation is over
AfterLog(final_result, out) ==
    IF out = "raise"
    THEN final_result                                                   \* 461-462
    ELSE WithConversationId(final_result, IF out = "rowid" THEN 1 ELSE 0)

Call(name, outcome) == [call |-> name, attempt |-> attempt, outcome |-> outcome]

----------------------------------------------------------------------------
(* build_knowledge_base *)

batch_size == 50            \* line 143
MinContentLength == 150     \* line 117

\* a document, by the length of its content and the number of chunks
\* _chunk_content makes of it
DocShapes ==
    { [content_length |-> 100, chunks |-> 0],
      [content_length |-> 400, chunks |-> 1],
      [content_length |-> 24000, chunks |-> 30],
      [content_length |-> 44000, chunks |-> 55] }

ScrapedData == UNION { [1..n -> DocShapes] : n \in 0..MaxBuildDocs }

\* lines 116-121: the number of chunks document doc contributes
ChunksOf(doc) ==
    IF doc.content_length < MinContentLength THEN 0 ELSE doc.chunks

RECURSIVE AllIdsPerBuild(_, _)
\* AllIds with an id that also depends on the build that made it
AllIdsPerBuild(data, doc_idx) ==
    IF doc_idx >= Len(data) THEN << >>
    ELSE [ j \in 1..ChunksOf(data[doc_idx + 1]) |->
             <<doc_idx, j - 1, IF first_build = Pending THEN 1 ELSE 2>> ]
         \o AllIdsPerBuild(data, doc_idx + 1)

RECURSIVE AllIds(_, _)
\* lines 111-138: the ids doc_<doc_idx>_chunk_<chunk_idx> from document
\* doc_idx + 1 of data on, in order
AllIds(data, doc_idx) ==
    IF doc_idx >= Len(data) THEN << >>
    ELSE [ j \in 1..ChunksOf(data[doc_idx + 1]) |-> <<doc_idx, j - 1>> ]
         \o AllIds(data, doc_idx + 1)

Min2(a, b) == IF a <= b THEN a ELSE b

\* lines 147-149: all_ids[i:i + batch_size]
BatchIds(ids, i) ==
    { ids[k] : k \in (i + 1)..Min2(i + batch_size, Len(ids)) }

\* AfterBatchError failing fast: any failed add ends the build
AfterBatchErrorAlwaysAborts(num) == "abort"

\* lines 165-167: the print reads batch_num, which line 158 binds only
\* after an add that succeeded; read unbound it raises UnboundLocalError,
\* which leaves the loop for the handler of lines 175-177
AfterBatchError(num) == IF num = 0 THEN "abort" ELSE "continue"

----------------------------------------------------------------------------
(* The app layer: JupiterAIAssistant.ask_question and the session state *)

None == "None"

\* two questions validate_question accepts, and one it refuses
Questions == {"qa", "qb"}
Submissions == Questions \cup {""}

\* helpers.validate_question, lines 29-44
ValidateQuestion(question) == question # ""

\* app.py lines 498-516: why ask_question returns early, "none" if it does not
Rejection(question) ==
    IF ~ValidateQuestion(question) THEN "invalid"                       \* 498-502
    ELSE IF ~system_ready THEN "not_ready"                              \* 505-507
    ELSE IF processing_question = question THEN "in_flight"             \* 510-512
    ELSE IF last_processed_question = question THEN "answered"          \* 514-516
    ELSE "none"

Event(ev, question) == [ev |-> ev, question |-> question]

\* ProcessingAfterError leaving the marker as it is
ProcessingAfterErrorKept(question) == question

\* app.py line 556: processing_question once the handler of line 554 ran
ProcessingAfterError(question) == None

----------------------------------------------------------------------------
(* _chunk_content *)

\* Config.CHUNK_SIZE = 1000 and Config.CHUNK_OVERLAP = 200, scaled to the
\* short contents of the model, and with them the two literals of
\* _chunk_content: the 200 of line 80 and the 100 of line 87
CHUNK_SIZE == 5
CHUNK_OVERLAP == 1
Lookback == 3
MinChunkLength == 1

\* a letter, a sentence-ending mark, a whitespace character
Chars == {"a", ".", " "}

Contents == UNION { [1..n -> Chars] : n \in 0..MaxContentLen }

ChunkConfigs ==
    { [chunk_size |-> cs, chunk_overlap |-> ov] :
        cs \in 4..MaxChunkSize, ov \in 0..(MaxChunkSize - 1) }

\* text[a:b] of Python, a and b any integers
PySlice(text, a, b) ==
    LET n == Len(text)
        lo == IF a < 0 THEN Max2(a + n, 0) ELSE Min2(a, n)
        hi == IF b < 0 THEN Max2(b + n, 0) ELSE Min2(b, n)
    IN IF lo >= hi THEN << >> ELSE SubSeq(text, lo + 1, hi)

RECURSIVE LStrip(_)
LStrip(text) ==
    IF Len(text) > 0 /\ text[1] = " " THEN LStrip(Tail(text)) ELSE text

RECURSIVE RStrip(_)
RStrip(text) ==
    IF Len(text) > 0 /\ text[Len(text)] = " "
    THEN RStrip(SubSeq(text, 1, Len(text) - 1))
    ELSE text

\* str.strip(), line 85
Strip(text) == RStrip(LStrip(text))

\* line 81: content[i:i+2] in ['. ', '! ', '? ', '.\n'], over Chars
IsSentenceEnd(text, i) == PySlice(text, i, i + 2) = <<".", " ">>

\* SearchFrom starting one character further
SearchFromNext(end) == end + 1

\* line 80: where range(end, ..., -1) starts
SearchFrom(end) == end

\* line 80: where range(end, ..., -1) stops, itself not searched
SearchDownTo(start, cs) == Max2(start + cs - Lookback, start + (cs \div 2))

\* lines 76-83: the end of the window that starts at start, and whether a
\* sentence boundary moved it
Cut(text, start, cs) ==
    LET end == start + cs
        found == { i \in (SearchDownTo(start, cs) + 1)..SearchFrom(end) :
                     IsSentenceEnd(text, i) }
    IN IF end < Len(text) /\ found # {}
       THEN [ end |-> (CHOOSE i \in found : \A j \in found : j <= i) + 1,
              adjusted |-> TRUE ]
       ELSE [ end |-> end, adjusted |-> FALSE ]

\* line 87
Keeps(chunk) == Len(chunk) > 0 /\ Len(chunk) > MinChunkLength

----------------------------------------------------------------------------
(* Each specification below runs one part of the engine; the variables of
   the other parts rest at these values. *)

RetrIdle ==
    /\ store = [kind |-> "missing", results |-> NoResults]
    /\ cfg_threshold = SIMILARITY_THRESHOLD
    /\ rpc = "idle"
    /\ ret = EmptyRetrieval

TruncIdle ==
    /\ t_context = << >>
    /\ t_max = 0
    /\ tpc = "idle"
    /\ t_out = << >>

AskIdle ==
    /\ a_pc = "idle"
    /\ attempt = 1
    /\ session = FALSE
    /\ retrieved = EmptyRetrieval
    /\ result = Pending
    /\ final = Pending
    /\ trace = << >>

BuildIdle ==
    /\ scraped_data = << >>
    /\ all_ids = << >>
    /\ b_i = 0
    /\ batch_num = 0
    /\ collection = {}
    /\ submitted = << >>
    /\ failed = {}
    /\ b_pc = "idle"
    /\ b_ret = FALSE
    /\ first_build = Pending

ChunkIdle ==
    /\ content = << >>
    /\ chunk_size = CHUNK_SIZE
    /\ chunk_overlap = CHUNK_OVERLAP
    /\ c_start = 0
    /\ chunks = << >>
    /\ windows = << >>
    /\ c_iter = 0
    /\ c_pc = "idle"

GenIdle ==
    /\ g_context = << >>
    /\ g_docs = << >>
    /\ g_fault = "none"
    /\ g_pc = "idle"
    /\ g_ret = Pending

AppIdle ==
    /\ system_ready = FALSE
    /\ processing_question = None
    /\ last_processed_question = ""
    /\ conversation_history = << >>
    /\ p_pc = "off"
    /\ p_trace = << >>

----------------------------------------------------------------------------
(* The budgeter on its own: one call of _truncate_context *)

TruncInit ==
    /\ t_context \in Texts
    /\ t_max \in 0..MaxBudget
    /\ tpc = "call"
    /\ t_out = << >>
    /\ RetrIdle
    /\ AskIdle
    /\ BuildIdle
    /\ ChunkIdle
    /\ GenIdle
    /\ AppIdle

TruncateContext ==
    /\ tpc = "call"
    /\ t_out' = TruncateContextOf(t_context, t_max)
    /\ tpc' = "returned"
    /\ UNCHANGED <<t_context, t_max>>
    /\ UNCHANGED <<retrVars, askVars, buildVars, chunkVars, genVars, appVars>>

TruncNext == TruncateContext

TruncSpec == TruncInit /\ [][TruncNext]_vars

----------------------------------------------------------------------------
(* Properties of _truncate_context *)

Truncated == tpc = "returned" /\ CountTokens(t_context) > t_max
Units == Split(t_context)

RECURSIVE UnitTokens(_, _)
\* the token counts of the first k units, summed
UnitTokens(units, k) ==
    IF k = 0 THEN 0 ELSE UnitTokens(units, k - 1) + CountTokens(units[k])

\* the number of units of the longest prefix that fits max_tokens
Fitting == CHOOSE k \in 0..Len(Units) :
               /\ UnitTokens(Units, k) <= t_max
               /\ \A m \in 0..Len(Units) : UnitTokens(Units, m) <= t_max => m <= k

\* C9: a context over the budget comes back as the longest prefix of its
\* whole units whose token counts sum to at most max_tokens, joined by the
\* separator: the unit after that prefix does not fit, and no later unit
\* and no part of a unit is returned.
C9_LongestWholePrefix ==
    Truncated =>
        /\ t_out = Join(SubSeq(Units, 1, Fitting))
        /\ Fitting < Len(Units) =>
              UnitTokens(Units, Fitting) + CountTokens(Units[Fitting + 1]) > t_max

\* the first unit was kept, the second did not fit, and the third, which
\* would have fitted after the first, was left out
C9_Witness ==
    /\ Truncated
    /\ Len(Units) >= 3
    /\ Fitting = 1
    /\ Len(Units[1]) > 0
    /\ Len(Units[3]) > 0
    /\ CountTokens(Units[1]) + CountTokens(Units[3]) <= t_max
    /\ t_out = Units[1]

----------------------------------------------------------------------------
(* The retriever on its own: one call of retrieve_context *)

RetrInit ==
    /\ store \in Stores
    /\ cfg_threshold \in ConfigThresholds
    /\ rpc = "call"
    /\ ret = EmptyRetrieval
    /\ TruncIdle
    /\ AskIdle
    /\ BuildIdle
    /\ ChunkIdle
    /\ GenIdle
    /\ AppIdle

RetrieveContext ==
    /\ rpc = "call"
    /\ ret' = RetrieveContextOf(store, cfg_threshold)
    /\ rpc' = "returned"
    /\ UNCHANGED <<store, cfg_threshold>>
    /\ UNCHANGED <<truncVars, askVars, buildVars, chunkVars, genVars, appVars>>

RetrNext == RetrieveContext

RetrSpec == RetrInit /\ [][RetrNext]_vars

----------------------------------------------------------------------------
(* Properties of retrieve_context *)

Returned == rpc = "returned"
Answered == store.kind = "ok" /\ Len(store.results.documents) > 0
DocIdx == 1..Len(store.results.documents)
SimOf(i) == SimilarityScore(DistanceAt(store.results, i))
Kept == Len(ret.retrieved_docs)
KeptAt(cfg) == Len(RetrieveContextOf(store, cfg).retrieved_docs)

RECURSIVE SumSimilarity(_)
SumSimilarity(docs) ==
    IF Len(docs) = 0 THEN 0
    ELSE docs[1].similarity_score + SumSimilarity(Tail(docs))

\* C4: when the query answered with documents whose similarities are all
\* below the configured threshold and one of them is above 0.1, the
\* returned context and the returned candidate list are both non-empty.
C4_FallbackKeepsCandidate ==
    ( /\ Returned /\ Answered
      /\ \A i \in DocIdx : SimOf(i) < cfg_threshold
      /\ \E i \in DocIdx : SimOf(i) > RelaxedThreshold )
    => (Len(ret.context) > 0 /\ Kept > 0)

\* the second pass ran: nothing reached the effective threshold, one
\* document is above 0.1 and was kept
C4_Witness ==
    /\ Returned /\ Answered
    /\ cfg_threshold <= HighThreshold
    /\ \A i \in DocIdx : SimOf(i) < cfg_threshold
    /\ \E i \in DocIdx : SimOf(i) > RelaxedThreshold
    /\ Kept > 0 /\ Len(ret.context) > 0

\* C5 as stated: for the same query result, any configured threshold
\* below the one in force returns at least as many candidates.
C5_ThresholdMonotone ==
    Returned =>
        \A t2 \in ConfigThresholds :
            t2 < cfg_threshold => KeptAt(t2) >= Kept

\* C5 amended: the same, for a lower threshold whose effective threshold is
\* not above the effective one in force, and when a candidate passed the
\* first filter pass of the threshold in force (no relaxation happened).
C5_MonotoneWithoutRelaxation ==
    Returned =>
        \A t2 \in ConfigThresholds :
            ( /\ t2 < cfg_threshold
              /\ Threshold(t2) <= Threshold(cfg_threshold)
              /\ Answered
              /\ \E i \in DocIdx : SimOf(i) >= Threshold(cfg_threshold) )
            => KeptAt(t2) >= Kept

\* a lower threshold strictly gains a candidate over the one in force
C5_Witness ==
    /\ Returned /\ Answered
    /\ \E i \in DocIdx : SimOf(i) >= Threshold(cfg_threshold)
    /\ \E t2 \in ConfigThresholds :
          /\ t2 < cfg_threshold
          /\ Threshold(t2) <= Threshold(cfg_threshold)
          /\ KeptAt(t2) > Kept

\* C6: every similarity score of a returned candidate is in [0, 1], and so
\* is the returned aggregate relevance, whatever distance the store gave.
C6_SimilarityInUnitInterval ==
    Returned =>
        /\ \A k \in 1..Kept :
              /\ ret.retrieved_docs[k].similarity_score >= 0
              /\ ret.retrieved_docs[k].similarity_score <= SimOne
        /\ ret.avg_relevance >= 0
        /\ ret.avg_relevance <= SimOne

\* C7: a document the store gave no distance for (the distances list ends
\* before it) is not among the returned candidates nor in the context.
C7_NoDistanceNeverEnters ==
    Returned =>
        \A i \in DocIdx :
            i > Len(store.results.distances) =>
                /\ \A k \in 1..Kept :
                      ret.retrieved_docs[k].content # store.results.documents[i]
                /\ \A j \in 1..Len(ret.context) :
                      ret.context[j] # store.results.documents[i]

\* C8: the aggregate relevance is the mean of the similarity scores of the
\* returned candidates, 0 when there is none; one chunk at distance 0.3
\* under threshold 0.3 gives one candidate and aggregate 0.8.
C8_AggregateIsMean ==
    Returned =>
        /\ Kept = 0 => ret.avg_relevance = 0
        /\ Kept > 0 =>
              ret.avg_relevance * Kept = SumSimilarity(ret.retrieved_docs)
        /\ ( /\ Answered
             /\ Len(store.results.documents) = 1
             /\ store.results.distances = <<300>>
             /\ cfg_threshold = SIMILARITY_THRESHOLD )
           => (Kept = 1 /\ ret.avg_relevance = (8 * SimOne) \div 10)

\* two candidates of different similarity were returned, a third document
\* or none was left out
C8_Witness ==
    /\ Returned /\ Kept >= 2
    /\ ret.retrieved_docs[1].similarity_score # ret.retrieved_docs[2].similarity_score
    /\ ret.avg_relevance * Kept = SumSimilarity(ret.retrieved_docs)

----------------------------------------------------------------------------
(* The orchestrator: one call of ask_question, under the shipped
   configuration.  Each attempt queries the store anew, and the store may
   answer differently each time.  The three calls made inside the try of
   line 411 may also raise: whatever they raise reaches line 467, or line
   461 for log_conversation. *)

AskInit ==
    /\ a_pc = "retrieve"
    /\ attempt = 1
    /\ session \in BOOLEAN
    /\ retrieved = EmptyRetrieval
    /\ result = Pending
    /\ final = Pending
    /\ trace = << >>
    /\ store = [kind |-> "missing", results |-> NoResults]
    /\ cfg_threshold = SIMILARITY_THRESHOLD
    /\ rpc = "idle"
    /\ ret = EmptyRetrieval
    /\ TruncIdle
    /\ BuildIdle
    /\ ChunkIdle
    /\ GenIdle
    /\ AppIdle

\* lines 467-478, entered from the call whose record is entry
Handle(entry) ==
    /\ trace' = Append(trace, entry)
    /\ IF AfterRaise(attempt) = "return"
       THEN /\ final' = TechnicalErrorResult
            /\ a_pc' = "done"
            /\ UNCHANGED attempt
       ELSE IF AfterRaise(attempt) = "raise"
       THEN /\ a_pc' = "raised"
            /\ UNCHANGED <<attempt, final>>
       ELSE /\ attempt' = attempt + 1
            /\ a_pc' = "retrieve"
            /\ UNCHANGED final

\* lines 414-431: retrieve_context returns
AskRetrieve ==
    /\ a_pc = "retrieve"
    /\ \E st \in AskStores :
         LET r == RetrieveContextOf(st, cfg_threshold)
         IN /\ store' = st
            /\ retrieved' = r
            /\ IF Len(r.context) = 0
               THEN /\ trace' = Append(trace, Call("retrieve_context", "empty"))
                    /\ IF AfterEmpty(attempt) = "return"
                       THEN /\ final' = NoContextResult
                            /\ a_pc' = "done"
                            /\ UNCHANGED attempt
                       ELSE /\ attempt' = attempt + 1
                            /\ a_pc' = "retrieve"
                            /\ UNCHANGED final
               ELSE /\ trace' = Append(trace, Call("retrieve_context", "context"))
                    /\ a_pc' = "generate"
                    /\ UNCHANGED <<attempt, final>>
    /\ UNCHANGED <<session, result>>
    /\ UNCHANGED <<cfg_threshold, rpc, ret, truncVars, buildVars, chunkVars, genVars, appVars>>

\* line 416 raises
AskRetrieveRaises ==
    /\ a_pc = "retrieve"
    /\ Handle(Call("retrieve_context", "raise"))
    /\ UNCHANGED <<session, retrieved, result>>
    /\ UNCHANGED <<retrVars, truncVars, buildVars, chunkVars, genVars, appVars>>

\* lines 433-450, and 464-465 when there is no session_id
AskGenerate ==
    /\ a_pc = "generate"
    /\ \E llm \in LLMOutcomes :
         LET res == GenerateResponseOf(retrieved.context, retrieved.retrieved_docs, llm)
         IN /\ result' = res
            /\ trace' = Append(trace, Call("generate_response", llm))
            /\ IF Logs(session)
               THEN a_pc' = "log" /\ UNCHANGED final
               ELSE a_pc' = "done" /\ final' = FinalResult(res, retrieved)
    /\ UNCHANGED <<attempt, session, retrieved>>
    /\ UNCHANGED <<retrVars, truncVars, buildVars, chunkVars, genVars, appVars>>

\* line 435 raises
AskGenerateRaises ==
    /\ a_pc = "generate"
    /\ Handle(Call("generate_response", "raise"))
    /\ UNCHANGED <<session, retrieved, result>>
    /\ UNCHANGED <<retrVars, truncVars, buildVars, chunkVars, genVars, appVars>>

\* lines 453-465
AskLog ==
    /\ a_pc = "log"
    /\ \E out \in LogOutcomes :
         /\ trace' = Append(trace, Call("log_conversation", out))
         /\ final' = AfterLog(FinalResult(result, retrieved), out)
    /\ a_pc' = "done"
    /\ UNCHANGED <<attempt, session, retrieved, result>>
    /\ UNCHANGED <<retrVars, truncVars, buildVars, chunkVars, genVars, appVars>>

AskNext ==
    \/ AskRetrieve
    \/ AskRetrieveRaises
    \/ AskGenerate
    \/ AskGenerateRaises
    \/ AskLog

AskSpec == AskInit /\ [][AskNext]_vars

\* ask_question calling generate_response as its code is: it returns a
\* record whatever fails inside it (lines 394-403), it does not raise
AskGenReturnsNext ==
    \/ AskRetrieve
    \/ AskRetrieveRaises
    \/ AskGenerate
    \/ AskLog

AskGenReturnsSpec == AskInit /\ [][AskGenReturnsNext]_vars

\* ask_question is one sequential call: its next step is always taken
AskFairSpec == AskSpec /\ WF_vars(AskNext)

----------------------------------------------------------------------------
(* Properties of ask_question *)

Done == a_pc = "done"

Calls(name) == Cardinality({ k \in 1..Len(trace) : trace[k].call = name })

AlwaysEmpty ==
    \A k \in 1..Len(trace) :
        trace[k].call = "retrieve_context" => trace[k].outcome = "empty"

C2_AlwaysReturnsResult ==
    <>( /\ Done
        /\ {"response", "sources", "relevance_score"} \subseteq DOMAIN final )

\* each of the three calls raised once in the run, and a record came back
C2_Witness ==
    /\ Done
    /\ \A name \in {"retrieve_context", "generate_response", "log_conversation"} :
          \E k \in 1..Len(trace) : trace[k].call = name /\ trace[k].outcome = "raise"
    /\ "response" \in DOMAIN final

LLMFailed(k) ==
    /\ trace[k].call = "generate_response"
    /\ trace[k].outcome \in {"provider_error", "malformed"}

\* C3: a failed LLM call on attempt 1 or 2 is followed by another attempt,
\* and the apologetic message is returned only after the LLM call has
\* failed on each of the 3 attempts.
C3_LLMFailureRetried ==
    /\ \A k \in 1..Len(trace) :
          (LLMFailed(k) /\ trace[k].attempt < MaxAttempts) => ~Done
    /\ (Done /\ final.response = ApologyMsg) =>
          Cardinality({ k \in 1..Len(trace) : LLMFailed(k) }) = MaxAttempts

----------------------------------------------------------------------------
(* The builder: one call of build_knowledge_base on an empty store, with no
   progress_callback.  Each collection.add may succeed or raise. *)

BuildInit ==
    /\ scraped_data \in ScrapedData
    /\ all_ids = << >>
    /\ b_i = 0
    /\ batch_num = 0
    /\ collection = {}
    /\ submitted = << >>
    /\ failed = {}
    /\ b_pc = "start"
    /\ b_ret = FALSE
    /\ first_build = Pending
    /\ RetrIdle
    /\ TruncIdle
    /\ AskIdle
    /\ ChunkIdle
    /\ GenIdle
    /\ AppIdle

\* lines 98-100
BuildNoData ==
    /\ b_pc = "start"
    /\ Len(scraped_data) = 0
    /\ b_ret' = FALSE
    /\ b_pc' = "done"
    /\ UNCHANGED <<scraped_data, all_ids, b_i, batch_num, collection, submitted, failed, first_build>>
    /\ UNCHANGED <<retrVars, truncVars, askVars, chunkVars, genVars, appVars>>

\* lines 102-144
BuildChunks ==
    /\ b_pc = "start"
    /\ Len(scraped_data) > 0
    /\ all_ids' = AllIds(scraped_data, 0)
    /\ b_i' = 0
    /\ b_pc' = "batches"
    /\ UNCHANGED <<scraped_data, batch_num, collection, submitted, failed, b_ret, first_build>>
    /\ UNCHANGED <<retrVars, truncVars, askVars, chunkVars, genVars, appVars>>

\* lines 146-163: collection.add takes the batch
AddBatch ==
    /\ b_pc = "batches"
    /\ b_i < Len(all_ids)
    /\ collection' = collection \cup BatchIds(all_ids, b_i)
    /\ submitted' = Append(submitted, b_i)
    /\ batch_num' = (b_i \div batch_size) + 1
    /\ b_i' = b_i + batch_size
    /\ UNCHANGED <<scraped_data, all_ids, failed, b_pc, b_ret, first_build>>
    /\ UNCHANGED <<retrVars, truncVars, askVars, chunkVars, genVars, appVars>>

\* lines 146-156 and 165-167: collection.add raises
AddBatchFails ==
    /\ b_pc = "batches"
    /\ b_i < Len(all_ids)
    /\ submitted' = Append(submitted, b_i)
    /\ failed' = failed \cup {b_i}
    /\ IF AfterBatchError(batch_num) = "continue"
       THEN /\ b_i' = b_i + batch_size
            /\ UNCHANGED <<b_pc, b_ret>>
       ELSE /\ b_ret' = FALSE                                          \* 175-177
            /\ b_pc' = "done"
            /\ UNCHANGED b_i
    /\ UNCHANGED <<scraped_data, all_ids, batch_num, collection, first_build>>
    /\ UNCHANGED <<retrVars, truncVars, askVars, chunkVars, genVars, appVars>>

\* lines 169-173
BuildFinish ==
    /\ b_pc = "batches"
    /\ b_i >= Len(all_ids)
    /\ b_ret' = TRUE
    /\ b_pc' = "done"
    /\ UNCHANGED <<scraped_data, all_ids, b_i, batch_num, collection, submitted, failed, first_build>>
    /\ UNCHANGED <<retrVars, truncVars, askVars, chunkVars, genVars, appVars>>

BuildNext ==
    \/ BuildNoData
    \/ BuildChunks
    \/ AddBatch
    \/ AddBatchFails
    \/ BuildFinish

BuildSpec == BuildInit /\ [][BuildNext]_vars

----------------------------------------------------------------------------
(* Properties of build_knowledge_base *)

BuildDone == b_pc = "done"

\* the offsets of range(0, len(all_chunks), batch_size)
BatchOffsets ==
    { i \in 0..Len(all_ids) : i < Len(all_ids) /\ i % batch_size = 0 }

\* C10: when collection.add raised for exactly one batch, the first one
\* included, the build ends having handed every batch to collection.add,
\* and the store holds the ids of every other batch.
C10_FailedBatchSkipped ==
    (BuildDone /\ Len(scraped_data) > 0 /\ Cardinality(failed) = 1) =>
        /\ \A i \in BatchOffsets : Member(i, submitted)
        /\ \A i \in BatchOffsets \ failed : BatchIds(all_ids, i) \subseteq collection


\* C11: a build in which collection.add took at least one batch returns
\* True, whatever other batches failed.
C11_TrueIfAnyBatchAdded ==
    (BuildDone /\ \E k \in 1..Len(submitted) : submitted[k] \notin failed)
        => b_ret = TRUE

\* a batch was added, a later one failed, and the build returned True
C11_Witness ==
    /\ BuildDone
    /\ failed # {}
    /\ \E k \in 1..Len(submitted) : submitted[k] \notin failed
    /\ b_ret = TRUE

----------------------------------------------------------------------------
(* Two builds in a row on the same documents and the same store.  The
   store keeps its ids between the builds; an id it already holds is not
   held twice, whether collection.add passes it over or raises for it. *)

Range(seq) == { seq[k] : k \in 1..Len(seq) }

\* the second call of build_knowledge_base: the locals start afresh
BuildAgain ==
    /\ b_pc = "done"
    /\ first_build = Pending
    /\ first_build' = [ ids |-> Range(all_ids),
                        count |-> Cardinality(collection),
                        failed |-> failed,
                        ret |-> b_ret ]
    /\ all_ids' = << >>
    /\ b_i' = 0
    /\ batch_num' = 0
    /\ submitted' = << >>
    /\ failed' = {}
    /\ b_pc' = "start"
    /\ b_ret' = FALSE
    /\ UNCHANGED <<scraped_data, collection>>
    /\ UNCHANGED <<retrVars, truncVars, askVars, chunkVars, genVars, appVars>>

RebuildNext ==
    \/ BuildNoData
    \/ BuildChunks
    \/ AddBatch
    \/ AddBatchFails
    \/ BuildFinish
    \/ BuildAgain

RebuildSpec == BuildInit /\ [][RebuildNext]_vars

RebuildDone == b_pc = "done" /\ first_build # Pending

----------------------------------------------------------------------------
(* The chunker on its own: one call of _chunk_content *)

ChunkInit ==
    /\ content \in Contents
    /\ \E cfg \in ChunkConfigs :
         /\ cfg.chunk_overlap < cfg.chunk_size
         /\ chunk_size = cfg.chunk_size
         /\ chunk_overlap = cfg.chunk_overlap
    /\ c_start = 0
    /\ chunks = << >>
    /\ windows = << >>
    /\ c_iter = 0
    /\ c_pc = "call"
    /\ RetrIdle
    /\ TruncIdle
    /\ AskIdle
    /\ BuildIdle
    /\ GenIdle
    /\ AppIdle

\* lines 69-70
ChunkWhole ==
    /\ c_pc = "call"
    /\ Len(content) <= chunk_size
    /\ chunks' = <<content>>
    /\ windows' = <<[start |-> 0, end |-> Len(content), adjusted |-> FALSE]>>
    /\ c_pc' = "returned"
    /\ UNCHANGED <<content, chunk_size, chunk_overlap, c_start, c_iter>>
    /\ UNCHANGED <<retrVars, truncVars, askVars, buildVars, genVars, appVars>>

\* lines 72-75
ChunkEnterLoop ==
    /\ c_pc = "call"
    /\ Len(content) > chunk_size
    /\ c_start' = 0
    /\ c_pc' = "loop"
    /\ UNCHANGED <<content, chunk_size, chunk_overlap, chunks, windows, c_iter>>
    /\ UNCHANGED <<retrVars, truncVars, askVars, buildVars, genVars, appVars>>

\* lines 75-92: one iteration of the while loop
ChunkWindow ==
    /\ c_pc = "loop"
    /\ c_start < Len(content)
    /\ c_iter < MaxWindows
    /\ LET cut == Cut(content, c_start, chunk_size)
           chunk == Strip(PySlice(content, c_start, cut.end))
       IN /\ IF Keeps(chunk)
             THEN /\ chunks' = Append(chunks, chunk)
                  /\ windows' = Append(windows, [ start |-> c_start,
                                                  end |-> cut.end,
                                                  adjusted |-> cut.adjusted ])
             ELSE UNCHANGED <<chunks, windows>>
          /\ c_start' = cut.end - chunk_overlap
          /\ c_pc' = IF cut.end - chunk_overlap >= Len(content)
                     THEN "returned" ELSE "loop"
    /\ c_iter' = c_iter + 1
    /\ UNCHANGED <<content, chunk_size, chunk_overlap>>
    /\ UNCHANGED <<retrVars, truncVars, askVars, buildVars, genVars, appVars>>

ChunkNext ==
    \/ ChunkWhole
    \/ ChunkEnterLoop
    \/ ChunkWindow

ChunkSpec == ChunkInit /\ [][ChunkNext]_vars

----------------------------------------------------------------------------
(* Properties of _chunk_content *)

ChunksReturned == c_pc = "returned"

\* C13: no chunk is longer than chunk_size plus one character.
C13_ChunkLengthBound ==
    \A k \in 1..Len(chunks) : Len(chunks[k]) <= chunk_size + 1

\* a chunk of chunk_size + 1 characters, cut just after a mark found at
\* the nominal boundary
C13_Witness ==
    /\ ChunksReturned
    /\ \E k \in 1..Len(chunks) :
          /\ Len(chunks[k]) = chunk_size + 1
          /\ windows[k].adjusted

\* C14: the returned list has no empty chunk and no two equal chunks.
C14_NoEmptyNoDuplicate ==
    ChunksReturned =>
        /\ \A k \in 1..Len(chunks) : Len(chunks[k]) > 0
        /\ \A k, m \in 1..Len(chunks) : k # m => chunks[k] # chunks[m]

LastOf(text, n) == SubSeq(text, Max2(1, Len(text) - n + 1), Len(text))
FirstOf(text, n) == SubSeq(text, 1, Min2(n, Len(text)))

\* C15: for two adjacent chunks of the returned list, the first of them
\* cut without a sentence-boundary adjustment, the last chunk_overlap
\* characters of the first are the first chunk_overlap characters of the
\* second.
C15_AdjacentChunksOverlap ==
    ChunksReturned =>
        \A k \in 1..(Len(chunks) - 1) :
            ~windows[k].adjusted =>
                LastOf(chunks[k], chunk_overlap) = FirstOf(chunks[k + 1], chunk_overlap)

\* C16: every iteration of the loop moves the window start forward.
C16_StartAdvances ==
    [][ (c_pc = "loop" /\ c_iter' = c_iter + 1) => c_start' > c_start ]_vars

----------------------------------------------------------------------------
(* generate_response on its own: one call, any statement of its try block
   possibly raising *)

\* what retrieve_context hands over at line 416 when the context is not
\* empty, for any answer of the store
GenInputs ==
    { r \in { RetrieveContextOf(st, SIMILARITY_THRESHOLD) : st \in Stores } :
        Len(r.context) > 0 }

GenInit ==
    /\ \E r \in GenInputs :
         /\ g_context = r.context
         /\ g_docs = r.retrieved_docs
    /\ g_fault \in GenFaults
    /\ g_pc = "call"
    /\ g_ret = Pending
    /\ RetrIdle
    /\ TruncIdle
    /\ AskIdle
    /\ BuildIdle
    /\ ChunkIdle
    /\ AppIdle

\* lines 394-403, entered from the statement that raised
GenHandle ==
    IF Caught(g_fault) = "return"
    THEN /\ g_ret' = GenerateResponseOf(g_context, g_docs, g_fault)
         /\ g_pc' = "returned"
    ELSE /\ g_pc' = "raised"
         /\ UNCHANGED g_ret

\* line 338
GenTruncate ==
    /\ g_pc = "call"
    /\ IF g_fault = "truncate"
       THEN GenHandle /\ UNCHANGED g_context
       ELSE /\ g_context' = TruncateContextOf(g_context, DefaultMaxTokens)
            /\ g_pc' = "truncated"
            /\ UNCHANGED g_ret
    /\ UNCHANGED <<g_docs, g_fault>>
    /\ UNCHANGED <<retrVars, truncVars, askVars, buildVars, chunkVars, appVars>>

\* lines 340-372
GenCreate ==
    /\ g_pc = "truncated"
    /\ IF g_fault = "provider_error"
       THEN GenHandle
       ELSE g_pc' = "created" /\ UNCHANGED g_ret
    /\ UNCHANGED <<g_context, g_docs, g_fault>>
    /\ UNCHANGED <<retrVars, truncVars, askVars, buildVars, chunkVars, appVars>>

\* lines 374-392
GenReply ==
    /\ g_pc = "created"
    /\ IF g_fault = "malformed"
       THEN GenHandle
       ELSE /\ g_ret' = GenerateResponseOf(g_context, g_docs, "ok")
            /\ g_pc' = "returned"
    /\ UNCHANGED <<g_context, g_docs, g_fault>>
    /\ UNCHANGED <<retrVars, truncVars, askVars, buildVars, chunkVars, appVars>>

GenNext ==
    \/ GenTruncate
    \/ GenCreate
    \/ GenReply

GenSpec == GenInit /\ [][GenNext]_vars

----------------------------------------------------------------------------
(* The app layer: the questions one session submits, one after the other.
   Streamlit runs the script of a session one run at a time, and
   ask_question is a synchronous call within a run. *)

AppInit ==
    /\ system_ready = FALSE
    /\ processing_question = None
    /\ last_processed_question = ""
    /\ conversation_history = << >>
    /\ p_pc = "idle"
    /\ p_trace = << >>
    /\ RetrIdle
    /\ TruncIdle
    /\ AskIdle
    /\ BuildIdle
    /\ ChunkIdle
    /\ GenIdle

Submitted == Cardinality({ k \in 1..Len(p_trace) : p_trace[k].ev \in {"rejected", "engine"} })

\* build_rag_system, app.py lines 326-328
AppBuild ==
    /\ p_pc = "idle"
    /\ ~system_ready
    /\ system_ready' = TRUE
    /\ UNCHANGED <<processing_question, last_processed_question,
                   conversation_history, p_pc, p_trace>>
    /\ UNCHANGED <<retrVars, truncVars, askVars, buildVars, chunkVars, genVars>>

\* app.py lines 496-528: ask_question up to the call of the engine
AppSubmit ==
    /\ p_pc = "idle"
    /\ Submitted < MaxSubmissions
    /\ \E question \in Submissions :
         IF Rejection(question) # "none"
         THEN /\ p_trace' = Append(p_trace, Event("rejected", question))
              /\ UNCHANGED <<processing_question, p_pc>>
         ELSE /\ processing_question' = question                        \* 519
              /\ p_trace' = Append(p_trace, Event("engine", question))  \* 525
              /\ p_pc' = "asking"
    /\ UNCHANGED <<system_ready, last_processed_question, conversation_history>>
    /\ UNCHANGED <<retrVars, truncVars, askVars, buildVars, chunkVars, genVars>>

\* app.py lines 530-552: the engine returned
AppAnswered ==
    /\ p_pc = "asking"
    /\ conversation_history' = Append(conversation_history, processing_question)
    /\ last_processed_question' = processing_question
    /\ processing_question' = None
    /\ p_trace' = Append(p_trace, Event("answered", processing_question))
    /\ p_pc' = "idle"
    /\ UNCHANGED system_ready
    /\ UNCHANGED <<retrVars, truncVars, askVars, buildVars, chunkVars, genVars>>

\* app.py lines 554-560: an Exception inside the try of line 523
AppFailed ==
    /\ p_pc = "asking"
    /\ processing_question' = ProcessingAfterError(processing_question)
    /\ p_trace' = Append(p_trace, Event("failed", processing_question))
    /\ p_pc' = "idle"
    /\ UNCHANGED <<system_ready, last_processed_question, conversation_history>>
    /\ UNCHANGED <<retrVars, truncVars, askVars, buildVars, chunkVars, genVars>>

\* render_sidebar, app.py lines 216 and 226-230: Clear Chat
AppClearChat ==
    /\ p_pc = "idle"
    /\ Len(conversation_history) > 0
    /\ conversation_history' = << >>
    /\ last_processed_question' = ""
    /\ p_trace' = Append(p_trace, Event("cleared", ""))
    /\ UNCHANGED <<system_ready, processing_question, p_pc>>
    /\ UNCHANGED <<retrVars, truncVars, askVars, buildVars, chunkVars, genVars>>

AppNext ==
    \/ AppBuild
    \/ AppSubmit
    \/ AppAnswered
    \/ AppFailed
    \/ AppClearChat

AppSpec == AppInit /\ [][AppNext]_vars

----------------------------------------------------------------------------
(* Properties of the failure paths *)

LastCall == trace[Len(trace)]

Unavailable == {"missing", "query_error"}

\* C17: what ask_question gets from retrieve_context on an empty store
\* differs from what it gets on an unavailable store (collection missing,
\* or query failing).
C17_EmptyDistinctFromUnavailable ==
    \A u \in AskStores :
        ( /\ Len(trace) > 0
          /\ LastCall.call = "retrieve_context"
          /\ LastCall.outcome = "empty"
          /\ store.kind = "empty"
          /\ u.kind \in Unavailable )
        => RetrieveContextOf(u, cfg_threshold) # retrieved

AnswerFields == {"response", "sources", "relevance_score", "tokens_used", "num_sources"}

LogFailed ==
    /\ Done
    /\ Len(trace) > 0
    /\ LastCall.call = "log_conversation"
    /\ LastCall.outcome = "raise"

\* C18: when log_conversation raises after an answer was generated,
\* ask_question returns the generated answer, with response, sources,
\* relevance_score, tokens_used and num_sources as they are when logging
\* succeeds.
C18_LoggingFailureKeepsAnswer ==
    LogFailed =>
        /\ AnswerFields \subseteq DOMAIN final
        /\ final.response = result.response
        /\ final.sources = result.sources
        /\ final.relevance_score = retrieved.avg_relevance
        /\ final.tokens_used = result.tokens_used
        /\ final.num_sources = Len(retrieved.retrieved_docs)
        /\ \A out \in LogOutcomes \ {"raise"} : \A k \in AnswerFields :
              final[k] = AfterLog(FinalResult(result, retrieved), out)[k]

C18_Witness ==
    /\ LogFailed
    /\ final.response = "answer"
    /\ Len(final.sources) > 0
    /\ "conversation_id" \notin DOMAIN final

\* C19: generate_response never raises, and when a statement of its try
\* block fails it returns the apologetic message with no sources, no
\* context used and no tokens used.
C19_FailureGivesApology ==
    /\ g_pc # "raised"
    /\ (g_pc = "returned" /\ g_fault # "none") =>
          g_ret = [ response |-> ApologyMsg, sources |-> << >>,
                    context_used |-> 0, tokens_used |-> 0 ]

C19_Witness ==
    /\ g_pc = "returned"
    /\ g_fault = "malformed"
    /\ Len(g_context) > 0
    /\ Len(g_docs) > 0
    /\ g_ret.response = ApologyMsg

\* C20: a question reaches the engine a second time only if its earlier
\* call ended without an answer: not once it was answered, and not while
\* it is in flight.
C20_DuplicateRejected ==
    \A i, j \in 1..Len(p_trace) :
        ( /\ i < j
          /\ p_trace[i].ev = "engine"
          /\ p_trace[j] = p_trace[i] )
        => p_trace[i + 1].ev = "failed"

----------------------------------------------------------------------------
(* Properties of the app layer's in-flight marker *)

\* the engine calls that have not ended
Outstanding ==
    { k \in 1..Len(p_trace) : p_trace[k].ev = "engine" /\ k = Len(p_trace) }

Ended(k) == k < Len(p_trace) /\ p_trace[k + 1].ev \in {"answered", "failed"}

----------------------------------------------------------------------------
(* Properties of the result record and of the call sequence of
   ask_question *)

ResultFields ==
    {"query", "response", "sources", "relevance_score", "response_time",
     "context_length", "tokens_used", "num_sources"}

\* C22: every record ask_question returns has the fields query, response,
\* sources, relevance_score, response_time, context_length, tokens_used
\* and num_sources.
C22_ResultHasAllFields ==
    Done => ResultFields \subseteq DOMAIN final

IsCall(k, name) == trace[k].call = name

\* C23: generate_response is invoked at most once, right after a
\* retrieve_context call of the same attempt that returned a non-empty
\* context; no retrieve_context call follows it; the attempt counter
\* never exceeds 3.
C23_GenerateOnceAfterContext ==
    /\ Calls("generate_response") <= 1
    /\ \A k \in 1..Len(trace) :
          IsCall(k, "generate_response") =>
              /\ k > 1
              /\ trace[k - 1] = [ call |-> "retrieve_context",
                                  attempt |-> trace[k].attempt,
                                  outcome |-> "context" ]
              /\ \A m \in (k + 1)..Len(trace) : ~IsCall(m, "retrieve_context")
    /\ attempt <= 3
    /\ \A k \in 1..Len(trace) : trace[k].attempt <= 3

\* the answer was generated on the third attempt, after two attempts
\* without context
C23_Witness ==
    /\ Done
    /\ Len(trace) >= 4
    /\ trace[1].outcome = "empty"
    /\ trace[2].outcome = "empty"
    /\ trace[3] = [call |-> "retrieve_context", attempt |-> 3, outcome |-> "context"]
    /\ IsCall(4, "generate_response")
    /\ trace[4].attempt = 3

----------------------------------------------------------------------------
(* Properties of the first filter pass *)

\* the effective threshold as the claim words it: the configured one if
\* it is at most 0.8, else 0.3
EffectiveThreshold ==
    IF cfg_threshold <= (8 * SimOne) \div 10 THEN cfg_threshold ELSE (3 * SimOne) \div 10

RECURSIVE PassingFrom(_)
\* the indexes, from i on and in the store's order, of the documents whose
\* similarity reaches the effective threshold
PassingFrom(i) ==
    IF i > Len(store.results.documents) THEN << >>
    ELSE (IF SimOf(i) >= EffectiveThreshold THEN <<i>> ELSE << >>) \o PassingFrom(i + 1)

\* C24: when some document passes the first filter pass, the returned
\* candidates are exactly the documents of the query result whose
\* similarity is at least the effective threshold, in the store's order.
C24_ExactlyThosePassing ==
    (Returned /\ Answered /\ Len(PassingFrom(1)) > 0) =>
        /\ Len(ret.retrieved_docs) = Len(PassingFrom(1))
        /\ \A k \in 1..Len(ret.retrieved_docs) :
              /\ ret.retrieved_docs[k] = DocInfo(store.results, PassingFrom(1)[k])
              /\ ret.retrieved_docs[k].similarity_score >= EffectiveThreshold

\* a threshold above 0.8, replaced by 0.3: the second document passes, the
\* first does not
C24_Witness ==
    /\ Returned
    /\ Answered
    /\ cfg_threshold > (8 * SimOne) \div 10
    /\ Len(store.results.documents) = 2
    /\ PassingFrom(1) = <<2>>
    /\ Len(ret.retrieved_docs) = 1
    /\ ret.retrieved_docs[1].content = store.results.documents[2]

----------------------------------------------------------------------------
(* Properties of the token budget and of the build result *)

\* C25: the text _truncate_context returns, counted as a whole by
\* _count_tokens, separators included, has at most max_tokens tokens.
C25_ReturnedTextFitsBudget ==
    tpc = "returned" => CountTokens(t_out) <= t_max

\* C29: from a non-empty context and a budget of at least one token,
\* truncation returns a non-empty text, also when the first unit alone
\* exceeds the budget.
C29_TruncationKeepsSomeUnit ==
    (tpc = "returned" /\ Len(t_context) > 0 /\ t_max > 0) => Len(t_out) > 0

\* C30: a build that returned True added at least one batch of chunks to
\* the store.
C30_TrueMeansChunkAdded ==
    (BuildDone /\ b_ret = TRUE) =>
        \E k \in 1..Len(submitted) : submitted[k] \notin failed

----------------------------------------------------------------------------
(* Properties of the sources, of the context units and of the logging *)

Triple(doc) ==
    [title |-> doc.title, url |-> doc.source_url, relevance |-> doc.similarity_score]

\* the index in g_docs of the first candidate with this triple
FirstWith(triple) ==
    CHOOSE k \in 1..Len(g_docs) :
        /\ Triple(g_docs[k]) = triple
        /\ \A m \in 1..(k - 1) : Triple(g_docs[m]) # triple

\* C26: after a successful LLM call the sources are the distinct (title,
\* url, relevance) triples of the candidates, each once, in the order of
\* their first occurrence.
C26_SourcesAreDistinctTriples ==
    (g_pc = "returned" /\ g_fault = "none") =>
        /\ \A k, m \in 1..Len(g_ret.sources) : k # m => g_ret.sources[k] # g_ret.sources[m]
        /\ \A k \in 1..Len(g_docs) : Member(Triple(g_docs[k]), g_ret.sources)
        /\ \A k \in 1..Len(g_ret.sources) :
              \E m \in 1..Len(g_docs) : Triple(g_docs[m]) = g_ret.sources[k]
        /\ \A k, m \in 1..Len(g_ret.sources) :
              k < m => FirstWith(g_ret.sources[k]) < FirstWith(g_ret.sources[m])

\* two candidates with one triple give one source
C26_Witness ==
    /\ g_pc = "returned"
    /\ g_fault = "none"
    /\ Len(g_docs) = 2
    /\ Triple(g_docs[1]) = Triple(g_docs[2])
    /\ Len(g_ret.sources) = 1

SourceHeaders == {"[Source: T]", "[Source: Unknown]"}

\* the number of "[Source: ...]" units of a context
SourceUnits(text) == Cardinality({ j \in 1..Len(text) : text[j] \in SourceHeaders })

\* C27: the context retrieve_context returns is empty exactly when the
\* candidate list is empty, it has one "[Source: ...]" unit for each
\* candidate, and an empty context comes with aggregate relevance 0.
C27_ContextMatchesCandidates ==
    Returned =>
        /\ (Len(ret.context) = 0) <=> (Len(ret.retrieved_docs) = 0)
        /\ SourceUnits(ret.context) = Len(ret.retrieved_docs)
        /\ Len(ret.context) > 0 => Len(Split(ret.context)) = Len(ret.retrieved_docs)
        /\ Len(ret.context) = 0 => ret.avg_relevance = 0

C27_Witness ==
    /\ Returned
    /\ Len(ret.retrieved_docs) = 2
    /\ SourceUnits(ret.context) = 2
    /\ Len(Split(ret.context)) = 2

\* C28: log_conversation is called at most once in a call of
\* ask_question, only with a session_id and right after generate_response
\* was called in the same attempt; the no-context record and the
\* technical-error record are returned without a logging call.
C28_LogOnceAfterGenerate ==
    /\ Calls("log_conversation") <= 1
    /\ \A k \in 1..Len(trace) :
          IsCall(k, "log_conversation") =>
              /\ session
              /\ k > 1
              /\ IsCall(k - 1, "generate_response")
              /\ trace[k - 1].attempt = trace[k].attempt
              /\ trace[k - 1].outcome # "raise"
    /\ (Done /\ final \in {NoContextResult, TechnicalErrorResult}) =>
          Calls("log_conversation") = 0

\* an answer was generated and logged with a session_id
C28_Witness ==
    /\ Done
    /\ session
    /\ Calls("log_conversation") = 1
    /\ Calls("generate_response") = 1
    /\ "conversation_id" \in DOMAIN final

====
